---- MODULE Spec2Model ----
(***************************************************************************)
(* Model of the per-scan pipeline of SpotFrontend                          *)
(* (spot_frontend/src/SpotFrontend.cc): the sequence guard, the density    *)
(* classification, the external-odometry integration, the scan-to-scan    *)
(* stage, the bootstrap path, the scan-to-submap stage and the keyframe    *)
(* decision of SpotFrontend::LidarCallback, and SpotFrontend::             *)
(* OdometryCallback feeding the transform buffer.                          *)
(*                                                                         *)
(* The filter, the estimator, the localizer, the mapper and the transform  *)
(* buffer are collaborators: every call the frontend makes to them is      *)
(* appended to the trace `calls`, and what they return (UpdateEstimate's   *)
(* boolean, the diagnostics levels, the integrated estimate, the looked-up *)
(* pose) is an input of the callback drawn from a bounded set.             *)
(*                                                                         *)
(* Poses are planar rigid transforms <<x, y, r>> with integer translation  *)
(* and a rotation of r quarter turns; lengths are compared by their        *)
(* squares and angles are counted in quarter turns.                        *)
(***************************************************************************)
EXTENDS Integers, Sequences, FiniteSets

(***************************************************************************)
(* Bounds of the model.                                                    *)
(***************************************************************************)
MaxCoord == 2        \* localizer estimates have x in 0..MaxCoord
MaxTurn == 2         \* localizer estimates have r in 0..MaxTurn quarter turns
MaxOdomStep == 1     \* the external odometry reports poses 0..MaxOdomStep
MaxStamp == 2        \* time stamps are 1..MaxStamp
MaxSeq == 3          \* scan sequence numbers are 0..MaxSeq
MaxWidth == 2        \* scans have 0..MaxWidth points
MaxMeters == 3       \* map_publishment_meters_ is 1..MaxMeters

(***************************************************************************)
(* Values of the parameters LoadParameters reads, in the model's units.    *)
(***************************************************************************)
translation_threshold_kf_ == 1      \* one length unit
rotation_threshold_kf_ == 1         \* one quarter turn
number_of_points_open_space_ == 1   \* points

\* diagnostic_msgs::DiagnosticStatus levels: 0 is OK, the level PublishAll is
\* conditioned on; 1 is WARN, 2 is ERROR.
DiagnosticLevels == {0, 1, 2}

(***************************************************************************)
(* Poses.                                                                  *)
(***************************************************************************)
Identity == <<0, 0, 0>>

\* The vector <<x, y>> turned by r quarter turns.
Rotate(x, y, r) ==
    CASE r % 4 = 0 -> <<x, y>>
      [] r % 4 = 1 -> <<-y, x>>
      [] r % 4 = 2 -> <<-x, -y>>
      [] r % 4 = 3 -> <<y, -x>>

\* tf::Transform::inverseTimes: inverse(a) * b, that is the basis
\* transpose(Ra) * Rb and the origin transpose(Ra) * (tb - ta).
inverseTimes(a, b) ==
    LET v == Rotate(b[1] - a[1], b[2] - a[2], 4 - a[3])
    IN  <<v[1], v[2], (b[3] + 4 - a[3]) % 4>>

\* geometry_utils::PoseInverse.
PoseInverse(a) ==
    LET v == Rotate(-a[1], -a[2], 4 - a[3])
    IN  <<v[1], v[2], (4 - a[3]) % 4>>

\* geometry_utils::PoseUpdate: the composition a * b.
PoseUpdate(a, b) ==
    LET v == Rotate(b[1], b[2], a[3])
    IN  <<a[1] + v[1], a[2] + v[2], (a[3] + b[3]) % 4>>

\* geometry_utils::PoseDelta(pose1, pose2) = PoseUpdate(PoseInverse(pose1), pose2).
PoseDelta(pose1, pose2) == PoseUpdate(PoseInverse(pose1), pose2)

\* delta.translation().norm(), squared.
TranslationNormSq(delta) == delta[1] * delta[1] + delta[2] * delta[2]

\* fabs(2*acos(delta.rotation().toQuaternion().w())) in quarter turns: the
\* quaternion of a rotation matrix has w >= 0, so three quarter turns count
\* as one.
RotationAngle(delta) ==
    CASE delta[3] % 4 = 0 -> 0
      [] delta[3] % 4 = 1 -> 1
      [] delta[3] % 4 = 2 -> 2
      [] delta[3] % 4 = 3 -> 1

\* The integrated estimates the localizer may report.
PoseSet == {<<x, 0, r>> : x \in 0..MaxCoord, r \in 0..MaxTurn}

\* The poses the external odometry source may report: pose k is k units
\* ahead and k quarter turns round.
OdomPoseSet == {<<k, 0, k % 4>> : k \in 0..MaxOdomStep}

Stamps == 1..MaxStamp

VARIABLES
    self,              \* the SpotFrontend object: its member fields
    odometry_buffer_,  \* the transform buffer: stamp -> pose of the entries
    msg,               \* the scan of the last LidarCallback
    calls,             \* the calls of the last LidarCallback, in order
    path,              \* how the last LidarCallback ended
    terminated,        \* an exception left a callback uncaught
    b_reached,         \* some LidarCallback got to the scan-to-scan stage
    n_keyframes,       \* keyframe insertions since the last PublishMap
    twin               \* a second frontend fed the same inputs (SpecTwin)

vars == <<self, odometry_buffer_, msg, calls, path, terminated, b_reached,
          n_keyframes, twin>>

(***************************************************************************)
(* Construction and initialization.                                        *)
(***************************************************************************)
\* The object the constructor leaves.  pcld_seq_prev_ and
\* odometry_pose_previous_ have no initializer and are written before they
\* are read (behind b_pcld_received_ and b_odometry_has_been_received_);
\* last_keyframe_pose_ is a default-constructed transform, the identity.
\* The parameters are those LoadParameters fills in.
SpotFrontend ==
    [ b_add_first_scan_to_key_ |-> TRUE,
      counter_ |-> 0,
      b_pcld_received_ |-> FALSE,
      pcld_seq_prev_ |-> 0,
      b_use_odometry_integration_ |-> FALSE,
      b_odometry_has_been_received_ |-> FALSE,
      odometry_pose_previous_ |-> Identity,
      b_is_open_space_ |-> FALSE,
      last_keyframe_pose_ |-> Identity,
      publish_diagnostics_ |-> FALSE,
      b_enable_computation_time_profiling_ |-> FALSE,
      b_run_with_gt_point_cloud_ |-> FALSE,
      b_publish_map_ |-> FALSE,
      map_publishment_meters_ |-> 1,
      b_verbose_ |-> FALSE ]

\* LoadParameters: the parameters a run is started with.
LoadParameters(s, p) ==
    [s EXCEPT !.map_publishment_meters_ = p.map_publishment_meters_,
              !.b_publish_map_ = p.b_publish_map_,
              !.b_enable_computation_time_profiling_ =
                  p.b_enable_computation_time_profiling_,
              !.b_run_with_gt_point_cloud_ = p.b_run_with_gt_point_cloud_,
              !.publish_diagnostics_ = p.publish_diagnostics_,
              !.b_verbose_ = p.b_verbose_]

\* SetDataIntegrationMode: mode 3 turns the odometry integration on, mode 0
\* leaves it off (any other mode makes Initialize fail).
SetDataIntegrationMode(s, data_integration_mode_) ==
    IF data_integration_mode_ = 3
    THEN [s EXCEPT !.b_use_odometry_integration_ = TRUE]
    ELSE s

\* Initialize, as far as it sets the fields LidarCallback reads.
Initialize(p) ==
    SetDataIntegrationMode(LoadParameters(SpotFrontend, p), p.data_integration_mode_)

\* The parameter sets a run may be started with; every run is verbose.
Parameters(modes, gts, pubs, meters, profs, diags) ==
    [ b_verbose_ : {TRUE},
      data_integration_mode_ : modes,
      b_run_with_gt_point_cloud_ : gts,
      b_publish_map_ : pubs,
      map_publishment_meters_ : meters,
      b_enable_computation_time_profiling_ : profs,
      publish_diagnostics_ : diags ]

(***************************************************************************)
(* The transform buffer.                                                   *)
(***************************************************************************)
BufferStamps(buffer) == {e[1] : e \in buffer}

Min(S) == CHOOSE m \in S : \A n \in S : m <= n
Max(S) == CHOOSE m \in S : \A n \in S : m >= n

\* odometry_buffer_.lookupTransform(bd_odom_frame_id_, base_frame_id_, stamp):
\* throws when the buffer holds nothing for the frames or when the stamp is
\* outside the span of its entries; returns the entry of that stamp, or a
\* pose interpolated between the neighbouring entries (any pose `between`).
lookupTransform(buffer, stamp, between) ==
    IF buffer = {}
    THEN [ok |-> FALSE, exception |-> "LookupException", pose |-> Identity]
    ELSE IF stamp < Min(BufferStamps(buffer)) \/ stamp > Max(BufferStamps(buffer))
    THEN [ok |-> FALSE, exception |-> "ExtrapolationException", pose |-> Identity]
    ELSE IF stamp \in BufferStamps(buffer)
    THEN [ok |-> TRUE, exception |-> "",
          pose |-> (CHOOSE e \in buffer : e[1] = stamp)[2]]
    ELSE [ok |-> TRUE, exception |-> "", pose |-> between]

(***************************************************************************)
(* LidarCallback, stage by stage.  A context c is the callback's frame:    *)
(* the object, the calls made so far and whether the callback is still     *)
(* running ("run") or has returned or thrown.                              *)
(***************************************************************************)
\* One call: the object, the method, the cloud passed and the value passed
\* or returned (a tuple of integers).
Call(obj, op, cloud, val) == <<obj, op, cloud, val>>

BoolVal(b) == IF b THEN <<1>> ELSE <<0>>

Enter(s) == [self |-> s, calls |-> <<>>, path |-> "run"]

\* Mutant: only a jump ahead counts as a dropped scan.
ScanDroppedAhead(s, m) ==
    /\ s.b_pcld_received_
    /\ m.seq > s.pcld_seq_prev_ + 1

\* Lines 209-211: the scan is not the first one and its number is not the
\* previous number plus one.  The numbers of the model stay far below the
\* 32 bits of header.seq, so the sum never wraps.
ScanDropped(s, m) ==
    /\ s.b_pcld_received_
    /\ m.seq # s.pcld_seq_prev_ + 1

\* Lines 204-213: the sequence guard.
SequenceGuard(c, m) ==
    [c EXCEPT !.calls = IF ScanDropped(c.self, m)
                        THEN Append(@, Call("ROS_WARN", "Lidar scan dropped", "", <<>>))
                        ELSE @,
              !.self.pcld_seq_prev_ = m.seq,
              !.self.b_pcld_received_ = TRUE]

\* Mutant: a point count equal to the threshold counts as open space.
IsOpenSpaceAtThreshold(m) == m.width >= number_of_points_open_space_

\* Line 216: the density classification of a scan.
IsOpenSpace(m) == m.width > number_of_points_open_space_

\* Lines 215-217.
DensityClassifier(c, m) == [c EXCEPT !.self.b_is_open_space_ = IsOpenSpace(m)]

\* Mutant: the previous pose composed without being inverted.
GetOdometryDeltaTimes(s, odometry_pose) ==
    PoseUpdate(s.odometry_pose_previous_, odometry_pose)

\* Mutant: the delta taken the other way round.
GetOdometryDeltaBackwards(s, odometry_pose) ==
    inverseTimes(odometry_pose, s.odometry_pose_previous_)

\* GetOdometryDelta (lines 342-344).
GetOdometryDelta(s, odometry_pose) ==
    inverseTimes(s.odometry_pose_previous_, odometry_pose)

\* Lines 232-237: the first odometry integration cycle records the pose
\* and returns.
FirstOdometry(c, pose) ==
    [c EXCEPT !.calls = Append(@, Call("odometry_buffer_", "lookupTransform", "", pose)),
              !.self.odometry_pose_previous_ = pose,
              !.self.b_odometry_has_been_received_ = TRUE,
              !.path = "first_odometry"]

\* Mutant: the previous odometry pose not updated after the delta is
\* forwarded.
ForwardOdometryKeepsPrevious(c, pose) ==
    [c EXCEPT !.calls = @ \o
                 << Call("odometry_buffer_", "lookupTransform", "", pose),
                    Call("odometry_", "SetOdometryDelta", "",
                         GetOdometryDelta(c.self, pose)) >>]

\* Lines 238-239: the later cycles forward the delta to the estimator.
ForwardOdometry(c, pose) ==
    [c EXCEPT !.calls = @ \o
                 << Call("odometry_buffer_", "lookupTransform", "", pose),
                    Call("odometry_", "SetOdometryDelta", "",
                         GetOdometryDelta(c.self, pose)) >>,
              !.self.odometry_pose_previous_ = pose]

\* Lines 222-240: the external-odometry integration.  lookupTransform's
\* exception is caught nowhere in the callback and leaves it.
OdometryIntegration(c, m, buffer, env) ==
    IF ~c.self.b_use_odometry_integration_
    THEN c
    ELSE LET t == lookupTransform(buffer, m.stamp, env.between)
         IN  IF ~t.ok
             THEN [c EXCEPT !.calls = Append(@, Call("odometry_buffer_",
                                         "lookupTransform", t.exception, <<>>)),
                            !.path = "exception"]
             ELSE IF ~c.self.b_odometry_has_been_received_
             THEN FirstOdometry(c, t.pose)
             ELSE ForwardOdometry(c, t.pose)

\* Mutant: PublishAll held back at ERROR only.
PublishesAllBelowError(level) == level < 2

\* Lines 253-254 and 285-286: a collaborator's PublishAll runs at level 0 (OK).
PublishesAll(level) == level = 0

\* Mutant: the durations published whether the profiling is enabled or not.
ProfileAlways(s, publisher) == << Call(publisher, "publish", "", <<>>) >>

\* Lines 256-262, 288-294, 321-327: a duration is published when the
\* profiling is enabled.
Profile(s, publisher) ==
    IF s.b_enable_computation_time_profiling_
    THEN << Call(publisher, "publish", "", <<>>) >>
    ELSE << >>

\* Mutant: the test of UpdateEstimate's result without its negation.
AddFirstScanToKeyOnSuccess(s, ue) == IF ue THEN TRUE ELSE s.b_add_first_scan_to_key_

\* Mutant: the test of UpdateEstimate's result caught in the profiling
\* block that precedes it.
AddFirstScanToKeyIfProfiling(s, ue) ==
    IF s.b_enable_computation_time_profiling_ /\ ~ue
    THEN TRUE
    ELSE s.b_add_first_scan_to_key_

\* Mutant: a failed UpdateEstimate leaves the first-scan flag alone.
AddFirstScanToKeyKept(s, ue) == s.b_add_first_scan_to_key_

\* Lines 249-251: a failed UpdateEstimate sets the first-scan flag.
AddFirstScanToKey(s, ue) == IF ~ue THEN TRUE ELSE s.b_add_first_scan_to_key_

\* Lines 301 and 353: a message logged when the frontend is verbose.
Verbose(s, text, val) ==
    IF s.b_verbose_ THEN << Call("ROS_INFO", text, "", val) >> ELSE << >>

\* Lines 242-262: the filter and the scan-to-scan stage.
ScanToScan(c, m, env) ==
    IF c.path # "run" THEN c
    ELSE
    [c EXCEPT !.calls = @ \o
                 << Call("filter_", "Filter", "msg", BoolVal(c.self.b_is_open_space_)),
                    Call("odometry_", "SetLidar", "msg_filtered_", <<>>),
                    Call("odometry_", "UpdateEstimate", "", BoolVal(env.ue)),
                    Call("odometry_", "GetDiagnostics", "", <<env.lvl_odom>>) >>
                 \o (IF PublishesAll(env.lvl_odom)
                     THEN << Call("odometry_", "PublishAll", "", <<>>) >>
                     ELSE << >>)
                 \o Profile(c.self, "scan_to_scan_duration_pub_"),
              !.self.b_add_first_scan_to_key_ = AddFirstScanToKey(c.self, env.ue)]

\* Mutant: the ground-truth test of line 264 without its negation.
TakesBootstrapWithGT(s) == s.b_add_first_scan_to_key_ /\ s.b_run_with_gt_point_cloud_

\* Line 264: the bootstrap path is taken.
TakesBootstrap(s) == s.b_add_first_scan_to_key_ /\ ~s.b_run_with_gt_point_cloud_

\* Mutant: the bootstrap path without the reset of the first-scan flag.
BootstrapKeepsFlag(c, m, env) ==
    IF c.path # "run" \/ ~TakesBootstrap(c.self) THEN c
    ELSE
    [c EXCEPT !.calls = @ \o
                 << Call("localization_", "TransformPointsToFixedFrame", "msg", <<>>),
                    Call("mapper_", "InsertPoints", "msg_transformed_", <<>>),
                    Call("localization_", "UpdateTimestamp", "", <<m.stamp>>),
                    Call("localization_", "PublishPoseNoUpdate", "", <<>>),
                    Call("localization_", "GetIntegratedEstimate", "", env.est) >>,
              !.self.last_keyframe_pose_ = env.est,
              !.path = "bootstrap"]

\* Mutant: the bootstrap path without its last two lines, the reading of
\* the integrated estimate and the return.
BootstrapWithoutReturn(c, m, env) ==
    IF c.path # "run" \/ ~TakesBootstrap(c.self) THEN c
    ELSE
    [c EXCEPT !.calls = @ \o
                 << Call("localization_", "TransformPointsToFixedFrame", "msg", <<>>),
                    Call("mapper_", "InsertPoints", "msg_transformed_", <<>>),
                    Call("localization_", "UpdateTimestamp", "", <<m.stamp>>),
                    Call("localization_", "PublishPoseNoUpdate", "", <<>>) >>,
              !.self.b_add_first_scan_to_key_ = FALSE]

\* Lines 264-272: the bootstrap path.
Bootstrap(c, m, env) ==
    IF c.path # "run" \/ ~TakesBootstrap(c.self) THEN c
    ELSE
    [c EXCEPT !.calls = @ \o
                 << Call("localization_", "TransformPointsToFixedFrame", "msg", <<>>),
                    Call("mapper_", "InsertPoints", "msg_transformed_", <<>>),
                    Call("localization_", "UpdateTimestamp", "", <<m.stamp>>),
                    Call("localization_", "PublishPoseNoUpdate", "", <<>>),
                    Call("localization_", "GetIntegratedEstimate", "", env.est) >>,
              !.self.b_add_first_scan_to_key_ = FALSE,
              !.self.last_keyframe_pose_ = env.est,
              !.path = "bootstrap"]

\* Mutant: the integrated estimate read before the updates of the scan.
ScanToSubmapStale(c, m, env) ==
    IF c.path # "run" THEN c
    ELSE
    [c EXCEPT !.calls = @ \o
                 << Call("localization_", "GetIntegratedEstimate", "", env.est),
                    Call("localization_", "MotionUpdate", "GetIncrementalEstimate", <<>>),
                    Call("localization_", "TransformPointsToFixedFrame", "msg", <<>>),
                    Call("mapper_", "ApproxNearestNeighbors", "msg_transformed_", <<>>),
                    Call("localization_", "TransformPointsToSensorFrame", "msg_neighbors_", <<>>),
                    Call("localization_", "MeasurementUpdate", "msg_filtered_", <<>>),
                    Call("localization_", "GetDiagnostics", "", <<env.lvl_loc>>) >>
                 \o (IF PublishesAll(env.lvl_loc)
                     THEN << Call("localization_", "PublishAll", "", <<>>) >>
                     ELSE << >>)
                 \o Profile(c.self, "scan_to_submap_duration_pub_")
                 \o Verbose(c.self, "SpotFrontend - ToGtsam", << >>)]

\* Lines 274-296: the scan-to-submap stage, up to the reading of the
\* integrated estimate (current_pose).
ScanToSubmap(c, m, env) ==
    IF c.path # "run" THEN c
    ELSE
    [c EXCEPT !.calls = @ \o
                 << Call("localization_", "MotionUpdate", "GetIncrementalEstimate", <<>>),
                    Call("localization_", "TransformPointsToFixedFrame", "msg", <<>>),
                    Call("mapper_", "ApproxNearestNeighbors", "msg_transformed_", <<>>),
                    Call("localization_", "TransformPointsToSensorFrame", "msg_neighbors_", <<>>),
                    Call("localization_", "MeasurementUpdate", "msg_filtered_", <<>>),
                    Call("localization_", "GetDiagnostics", "", <<env.lvl_loc>>) >>
                 \o (IF PublishesAll(env.lvl_loc)
                     THEN << Call("localization_", "PublishAll", "", <<>>) >>
                     ELSE << >>)
                 \o Profile(c.self, "scan_to_submap_duration_pub_")
                 \o << Call("localization_", "GetIntegratedEstimate", "", env.est) >>
                 \o Verbose(c.self, "SpotFrontend - ToGtsam", << >>)]

\* Mutant: the thresholds compared with >= instead of >.
ReachesThreshold(delta) ==
    \/ TranslationNormSq(delta) >= translation_threshold_kf_ * translation_threshold_kf_
    \/ RotationAngle(delta) >= rotation_threshold_kf_

\* Lines 299-300: a threshold is exceeded.
ExceedsThreshold(delta) ==
    \/ TranslationNormSq(delta) > translation_threshold_kf_ * translation_threshold_kf_
    \/ RotationAngle(delta) > rotation_threshold_kf_

\* Lines 305-311: the map publication counter; the calls it makes and the
\* counter it leaves.
PublishesMap(s) == s.b_publish_map_ /\ s.counter_ + 1 = s.map_publishment_meters_

\* Mutant: the counter not reset when the map is published.
CountAndPublishNoReset(s) ==
    IF ~s.b_publish_map_ THEN s.counter_ ELSE s.counter_ + 1

\* Mutant: the counter compared before it is incremented.
CountAndPublishLate(s) ==
    IF ~s.b_publish_map_ THEN s.counter_
    ELSE IF s.counter_ = s.map_publishment_meters_ THEN 0
    ELSE s.counter_ + 1

CountAndPublish(s) ==
    IF ~s.b_publish_map_ THEN s.counter_
    ELSE IF s.counter_ + 1 = s.map_publishment_meters_ THEN 0
    ELSE s.counter_ + 1

\* Lines 301-312: the insertion of a keyframe at current_pose, delta away
\* from the last one.
InsertKeyframe(c, current_pose, delta) ==
    [c EXCEPT !.calls = @
                 \o Verbose(c.self, "Adding to map",
                            <<TranslationNormSq(delta), RotationAngle(delta)>>)
                 \o << Call("localization_", "MotionUpdate", "Identity", Identity),
                    Call("localization_", "TransformPointsToFixedFrame", "msg", <<>>),
                    Call("mapper_", "InsertPoints", "msg_fixed_", <<>>) >>
                 \o (IF PublishesMap(c.self)
                     THEN << Call("mapper_", "PublishMap", "", <<>>) >>
                     ELSE << >>),
              !.self.counter_ = CountAndPublish(c.self),
              !.self.last_keyframe_pose_ = current_pose]

\* Mutant: the last keyframe pose assigned outside the test of the
\* thresholds.
KeyframeDecisionAlwaysMoves(c, current_pose) ==
    IF c.path # "run" THEN c
    ELSE LET delta == PoseDelta(c.self.last_keyframe_pose_, current_pose)
         IN  IF ExceedsThreshold(delta)
             THEN InsertKeyframe(c, current_pose, delta)
             ELSE [c EXCEPT !.self.last_keyframe_pose_ = current_pose]

\* Lines 297-313: the keyframe decision on current_pose.
KeyframeDecision(c, current_pose) ==
    IF c.path # "run" THEN c
    ELSE LET delta == PoseDelta(c.self.last_keyframe_pose_, current_pose)
         IN  IF ExceedsThreshold(delta)
             THEN InsertKeyframe(c, current_pose, delta)
             ELSE c

\* Lines 321-339: the callback's duration and the diagnostics, published at
\* the end of a callback that ran the scan-to-submap stage.
Finish(c, env) ==
    IF c.path # "run" THEN c
    ELSE
    [c EXCEPT !.calls = @ \o Profile(c.self, "lidar_callback_duration_pub_")
                 \o (IF c.self.publish_diagnostics_
                     THEN << Call("diagnostics_pub_", "publish", "",
                                  <<env.lvl_odom, env.lvl_loc>>) >>
                     ELSE << >>),
              !.path = "steady"]

\* LidarCallback (lines 194-340) on the scan m, with the collaborators
\* answering env.  The copy of the scan published on base_frame_pcld_pub_
\* when it has subscribers (lines 315-319) touches no state and is left out.
LidarCallbackBody(s, buffer, m, env) ==
    LET c1 == DensityClassifier(SequenceGuard(Enter(s), m), m)
        c2 == OdometryIntegration(c1, m, buffer, env)
        c3 == Bootstrap(ScanToScan(c2, m, env), m, env)
        c4 == KeyframeDecision(ScanToSubmap(c3, m, env), env.est)
    IN  Finish(c4, env)

(***************************************************************************)
(* The operations.                                                         *)
(***************************************************************************)
\* The calls of cs to obj.op.
CallsOf(cs, obj, op) == {i \in DOMAIN cs : cs[i][1] = obj /\ cs[i][2] = op}

\* A threshold-based keyframe insertion is the one place that makes a
\* zero motion update (line 302).
KeyframeInserted(cs) ==
    \E i \in CallsOf(cs, "localization_", "MotionUpdate") : cs[i][3] = "Identity"

MapPublished(cs) == CallsOf(cs, "mapper_", "PublishMap") # {}

\* The keyframe insertions since the last PublishMap (or since the
\* construction), counted up to MaxMeters + 1.
CountKeyframes(n, cs) ==
    IF MapPublished(cs) THEN 0
    ELSE IF KeyframeInserted(cs) /\ n <= MaxMeters THEN n + 1
    ELSE n

\* One delivery of a scan to LidarCallback.  An exception that leaves the
\* callback is caught by no caller in the frontend: it ends the run.  In the
\* odometry integration mode the scans come through a message filter on
\* odometry_buffer_ (lines 157-159), which waits for a transform from the
\* frame of the scan to bd_odom_frame_id_; the lookup of line 224 is from
\* base_frame_id_, and nothing ties the two frames together, so a scan may
\* be delivered whatever the buffer holds.
Deliver(m, env) ==
    /\ ~terminated
    /\ \E c \in {LidarCallbackBody(self, odometry_buffer_, m, env)} :
           /\ self' = c.self
           /\ calls' = c.calls
           /\ path' = c.path
           /\ terminated' = (c.path = "exception")
           /\ b_reached' = (b_reached \/ c.path \in {"bootstrap", "steady"})
           /\ n_keyframes' = CountKeyframes(n_keyframes, c.calls)
    /\ msg' = m
    /\ UNCHANGED odometry_buffer_

LidarCallback(m, env) == Deliver(m, env) /\ UNCHANGED twin

\* The same delivery to the frontend and to its twin.
TwinLidarCallback(m, env) ==
    /\ Deliver(m, env)
    /\ twin' = IF twin.path = "exception"
               THEN twin
               ELSE LidarCallbackBody(twin.self, odometry_buffer_, m, env)

\* OdometryCallback (lines 180-192): the pose of the odometry message is
\* stored in the transform buffer under the message's stamp.  The callback
\* is subscribed in the odometry integration mode only (lines 155-156).
OdometryCallback(stamp, pose) ==
    /\ ~terminated
    /\ self.b_use_odometry_integration_
    /\ stamp \notin BufferStamps(odometry_buffer_)
    /\ odometry_buffer_' = odometry_buffer_ \cup {<<stamp, pose>>}
    /\ UNCHANGED <<self, msg, calls, path, terminated, b_reached, n_keyframes, twin>>

(***************************************************************************)
(* Inputs.                                                                 *)
(***************************************************************************)
Scans(seqs, widths, stamps) == [seq : seqs, width : widths, stamp : stamps]

Answers(betweens, ues, lvls_odom, lvls_loc, ests) ==
    [between : betweens, ue : ues, lvl_odom : lvls_odom, lvl_loc : lvls_loc,
     est : ests]

NoScan == [seq |-> 0, width |-> 0, stamp |-> 0]

Started(parameters) ==
    /\ self \in {Initialize(p) : p \in parameters}
    /\ odometry_buffer_ = {}
    /\ msg = NoScan
    /\ calls = <<>>
    /\ path = "none"
    /\ terminated = FALSE
    /\ b_reached = FALSE
    /\ n_keyframes = 0

\* A run of one frontend: the twin is the frontend itself, and stays put.
InitWith(parameters) == Started(parameters) /\ twin = Enter(self)

\* A run: the parameters it may start with, the scans and the answers of
\* the collaborators it may see, and the odometry messages it may receive.
NextWith(scans, answers, stamps, poses) ==
    \/ \E m \in scans, env \in answers : LidarCallback(m, env)
    \/ \E stamp \in stamps, pose \in poses : OdometryCallback(stamp, pose)

\* A step of LidarCallback leaves the transform buffer alone, a step of
\* OdometryCallback adds an entry to it.
LidarStep == odometry_buffer_' = odometry_buffer_

(***************************************************************************)
(* Spec: the bootstrap path, the keyframe decision and the publication     *)
(* counter, in both integration modes; one scan number, one stamp, one     *)
(* odometry pose and diagnostics at OK.                                    *)
(***************************************************************************)
Init ==
    InitWith(Parameters({0, 3}, BOOLEAN, {TRUE}, 1..MaxMeters, {FALSE}, {FALSE})
             \cup Parameters({0, 3}, BOOLEAN, {FALSE}, {1}, {FALSE}, {FALSE}))

Next ==
    NextWith(Scans({0}, {1}, {1}),
             Answers({Identity}, BOOLEAN, {0}, {0}, PoseSet),
             {1}, {Identity})

Spec == Init /\ [][Next]_vars

(***************************************************************************)
(* SpecOdom: the external-odometry integration against the transform       *)
(* buffer; all stamps and odometry poses, two integrated estimates.        *)
(***************************************************************************)
FarPose == <<MaxCoord, 0, 0>>

InitOdom ==
    InitWith(Parameters({3}, {FALSE}, {FALSE}, {1}, {FALSE}, {FALSE}))

NextOdom ==
    NextWith(Scans({0}, {1}, Stamps),
             Answers(OdomPoseSet, BOOLEAN, {0}, {0}, {Identity, FarPose}),
             Stamps, OdomPoseSet)

SpecOdom == InitOdom /\ [][NextOdom]_vars

(***************************************************************************)
(* SpecFront: the sequence guard and the density classification; all scan  *)
(* numbers and point counts.                                               *)
(***************************************************************************)
InitFront ==
    InitWith(Parameters({0, 3}, {FALSE}, {FALSE}, {1}, {FALSE}, {FALSE}))

NextFront ==
    NextWith(Scans(0..MaxSeq, 0..MaxWidth, {1}),
             Answers({Identity}, BOOLEAN, {0}, {0}, {Identity}),
             {1}, {Identity})

SpecFront == InitFront /\ [][NextFront]_vars

(***************************************************************************)
(* SpecDiag: the diagnostics levels of the estimator and the localizer;    *)
(* the map is published at every keyframe insertion.                       *)
(***************************************************************************)
InitDiag ==
    InitWith(Parameters({0}, BOOLEAN, {TRUE}, {1}, {FALSE}, {FALSE}))

NextDiag ==
    \E m \in Scans({0}, {1}, {1}),
       env \in Answers({Identity}, BOOLEAN, DiagnosticLevels, DiagnosticLevels,
                       {Identity, FarPose}) :
        LidarCallback(m, env)

SpecDiag == InitDiag /\ [][NextDiag]_vars

(***************************************************************************)
(* SpecTwin: two frontends that differ in the instrumentation parameters   *)
(* alone, fed the same scans and the same answers.                         *)
(***************************************************************************)
Instrumentation(s) ==
    <<s.b_enable_computation_time_profiling_, s.publish_diagnostics_>>

InitTwin ==
    /\ Started(Parameters({0, 3}, BOOLEAN, {TRUE}, {2}, BOOLEAN, BOOLEAN))
    /\ \E prof \in BOOLEAN, diag \in BOOLEAN :
          /\ <<prof, diag>> # Instrumentation(self)
          /\ twin = Enter([self EXCEPT !.b_enable_computation_time_profiling_ = prof,
                                       !.publish_diagnostics_ = diag])

NextTwin ==
    \/ \E m \in Scans({0, 1}, {1}, {1}),
          env \in Answers({Identity}, BOOLEAN, {0, 1}, {0, 1}, {Identity, FarPose}) :
            TwinLidarCallback(m, env)
    \/ \E stamp \in {1}, pose \in {Identity} : OdometryCallback(stamp, pose)

SpecTwin == InitTwin /\ [][NextTwin]_vars

(***************************************************************************)
(* SpecConverged: runs on which UpdateEstimate() always returns true, with *)
(* the ground-truth cloud mode off, in both integration modes.             *)
(***************************************************************************)
InitConverged ==
    InitWith(Parameters({0, 3}, {FALSE}, {TRUE}, 1..MaxMeters, {FALSE}, {FALSE}))

NextConverged ==
    NextWith(Scans({0}, {1}, {1}),
             Answers({Identity}, {TRUE}, {0}, {0}, PoseSet),
             {1}, {Identity})

SpecConverged == InitConverged /\ [][NextConverged]_vars

(***************************************************************************)
(* What a callback's trace of calls shows.                                 *)
(***************************************************************************)
\* The value of the first call of cs to obj.op.
ValueOf(cs, obj, op) == cs[CHOOSE i \in CallsOf(cs, obj, op) : TRUE][4]

ReachedEstimator(cs) == CallsOf(cs, "odometry_", "UpdateEstimate") # {}

UpdateEstimateFailed(cs) ==
    \E i \in CallsOf(cs, "odometry_", "UpdateEstimate") : cs[i][4] = <<0>>

GroundTruth == self.b_run_with_gt_point_cloud_

\* The bootstrap of a scan: one InsertPoints, of the raw scan transformed to
\* the fixed frame, a pose published without update, no motion and no
\* measurement update, and the last keyframe pose set to the integrated
\* estimate read in the callback.
BootstrapDone(cs, s) ==
    /\ Cardinality(CallsOf(cs, "mapper_", "InsertPoints")) = 1
    /\ \E i \in CallsOf(cs, "mapper_", "InsertPoints") :
          /\ cs[i][3] = "msg_transformed_"
          /\ i > 1
          /\ cs[i - 1] = Call("localization_", "TransformPointsToFixedFrame", "msg", <<>>)
    /\ CallsOf(cs, "localization_", "PublishPoseNoUpdate") # {}
    /\ CallsOf(cs, "localization_", "MotionUpdate") = {}
    /\ CallsOf(cs, "localization_", "MeasurementUpdate") = {}
    /\ Cardinality(CallsOf(cs, "localization_", "GetIntegratedEstimate")) = 1
    /\ s.last_keyframe_pose_ = ValueOf(cs, "localization_", "GetIntegratedEstimate")

\* The threshold-based insertion of a keyframe: a zero motion update, the
\* raw scan transformed to the fixed frame, its insertion, and the last
\* keyframe pose set to the integrated estimate read in the callback.
KeyframeDone(cs, s) ==
    /\ \E i \in DOMAIN cs :
          /\ i + 2 <= Len(cs)
          /\ cs[i] = Call("localization_", "MotionUpdate", "Identity", Identity)
          /\ cs[i + 1] = Call("localization_", "TransformPointsToFixedFrame", "msg", <<>>)
          /\ cs[i + 2] = Call("mapper_", "InsertPoints", "msg_fixed_", <<>>)
    /\ Cardinality(CallsOf(cs, "mapper_", "InsertPoints")) = 1
    /\ s.last_keyframe_pose_ = ValueOf(cs, "localization_", "GetIntegratedEstimate")

(***************************************************************************)
(* C1.  Claimed: when UpdateEstimate() returns false on scan k, scan k+1   *)
(* takes the bootstrap path, whatever UpdateEstimate() returns on it.      *)
(***************************************************************************)
\* C1 as claimed (ground-truth cloud mode off): the scan processed after a
\* scan on which UpdateEstimate() returned false takes the bootstrap path.
C1_NextScanBootstraps ==
    [][(/\ ~GroundTruth
        /\ UpdateEstimateFailed(calls)
        /\ LidarStep
        /\ ReachedEstimator(calls'))
       => (path' = "bootstrap" /\ BootstrapDone(calls', self'))]_vars

\* C1 as amended: with the ground-truth cloud mode off, the scan on which
\* UpdateEstimate() returns false takes the bootstrap path itself and leaves
\* the first-scan flag cleared; a scan processed after the estimator stage
\* was first reached takes the bootstrap path exactly when UpdateEstimate()
\* returns false on that very scan.
C1_FailedScanBootstraps ==
    /\ []((~GroundTruth /\ UpdateEstimateFailed(calls))
          => (/\ path = "bootstrap"
              /\ BootstrapDone(calls, self)
              /\ ~self.b_add_first_scan_to_key_))
    /\ [][(/\ ~GroundTruth
           /\ b_reached
           /\ LidarStep
           /\ ReachedEstimator(calls'))
          => ((path' = "bootstrap" /\ BootstrapDone(calls', self'))
                <=> UpdateEstimateFailed(calls'))]_vars

\* C1 witness: UpdateEstimate() failed on a scan that came after keyframe
\* insertions, and the scan was bootstrapped.
C1_Witness ==
    /\ ~GroundTruth
    /\ UpdateEstimateFailed(calls)
    /\ path = "bootstrap"
    /\ n_keyframes > 0

(***************************************************************************)
(* C2.  Claimed: in every configuration the very first scan is             *)
(* bootstrapped.                                                           *)
(***************************************************************************)
\* C2 as claimed: the first scan delivered after construction is
\* bootstrapped, in every configuration.
C2_FirstScanBootstraps ==
    [][(~self.b_pcld_received_ /\ self'.b_pcld_received_)
       => BootstrapDone(calls', self')]_vars

\* C2 as amended: with the ground-truth cloud mode off, the first scan that
\* gets to the estimator is bootstrapped; without the odometry integration
\* that is the very first scan delivered.  (With the integration the first
\* scan only records the odometry pose; in ground-truth cloud mode no scan
\* is bootstrapped.)
C2_FirstProcessedScanBootstraps ==
    [][(/\ ~GroundTruth
        /\ LidarStep
        /\ \/ ~self.b_use_odometry_integration_ /\ ~self.b_pcld_received_
           \/ ~b_reached /\ b_reached')
       => (path' = "bootstrap" /\ BootstrapDone(calls', self'))]_vars

\* C2 witness: a bootstrap with a successful UpdateEstimate(), which only
\* the first scan can be, without the odometry integration.
C2_Witness ==
    /\ ~GroundTruth
    /\ ~self.b_use_odometry_integration_
    /\ path = "bootstrap"
    /\ ~UpdateEstimateFailed(calls)
    /\ BootstrapDone(calls, self)

(***************************************************************************)
(* C3.  In a steady cycle a keyframe is inserted iff the translation norm  *)
(* of PoseDelta(last_keyframe_pose_, current estimate) is strictly above   *)
(* translation_threshold_kf_ or the rotation angle is strictly above       *)
(* rotation_threshold_kf_.                                                 *)
(***************************************************************************)
\* C3: a steady cycle inserts a keyframe exactly when one of the two
\* thresholds is strictly exceeded; otherwise it inserts nothing and
\* leaves the last keyframe pose.
C3_KeyframeIffThreshold ==
    [][(path' = "steady" /\ LidarStep)
       => \A delta \in {PoseDelta(self.last_keyframe_pose_,
                                  ValueOf(calls', "localization_", "GetIntegratedEstimate"))} :
          \A over \in {\/ TranslationNormSq(delta) >
                            translation_threshold_kf_ * translation_threshold_kf_
                       \/ RotationAngle(delta) > rotation_threshold_kf_} :
             /\ over <=> KeyframeInserted(calls')
             /\ over => KeyframeDone(calls', self')
             /\ ~over => /\ CallsOf(calls', "mapper_", "InsertPoints") = {}
                         /\ self'.last_keyframe_pose_ = self.last_keyframe_pose_]_vars

\* C3 witness: a keyframe inserted on the translation alone (the rotation
\* is at its threshold, not above it).
C3_Witness ==
    /\ path = "steady"
    /\ KeyframeDone(calls, self)
    /\ \E i \in CallsOf(calls, "ROS_INFO", "Adding to map") :
          /\ calls[i][4][1] > translation_threshold_kf_ * translation_threshold_kf_
          /\ calls[i][4][2] = rotation_threshold_kf_

(***************************************************************************)
(* C4.  Claimed: PublishMap() is called exactly on every N-th keyframe     *)
(* insertion, N = map_publishment_meters_, and the counter is reset then.  *)
(***************************************************************************)
\* What C4 says of one keyframe insertion: the map is published, once,
\* exactly when this is the N-th insertion since the last publication (or
\* the construction), and the counter is then back at zero.
NthInsertionPublishes ==
    /\ MapPublished(calls') <=> n_keyframes + 1 = self.map_publishment_meters_
    /\ Cardinality(CallsOf(calls', "mapper_", "PublishMap")) <= 1
    /\ self'.counter_ = IF MapPublished(calls') THEN 0 ELSE n_keyframes + 1

\* C4 as claimed: whatever b_publish_map_ is.
C4_PublishEveryNth ==
    [][(LidarStep /\ KeyframeInserted(calls')) => NthInsertionPublishes]_vars

\* C4 as amended: when b_publish_map_ is set, PublishMap() is called exactly
\* once on every N-th keyframe insertion and the counter is reset to zero
\* then; no other scan publishes the map.
C4_PublishEveryNthIfEnabled ==
    /\ [][(LidarStep /\ self.b_publish_map_ /\ KeyframeInserted(calls'))
          => NthInsertionPublishes]_vars
    /\ [](MapPublished(calls) => KeyframeInserted(calls))
    /\ [](self.b_publish_map_ => self.counter_ = n_keyframes)

\* C4 witness: with N = 3 the third insertion has just published the map,
\* and the counter is back at zero.
C4_Witness ==
    /\ self.b_publish_map_
    /\ self.map_publishment_meters_ = 3
    /\ MapPublished(calls)
    /\ self.counter_ = 0

(***************************************************************************)
(* C5.  Claimed: a failed lookup aborts the current scan only.             *)
(***************************************************************************)
Collaborators == {"filter_", "odometry_", "localization_", "mapper_"}

IsCollaboratorCall(call) == call[1] \in Collaborators

LookupThrew(cs, exception) ==
    \E i \in CallsOf(cs, "odometry_buffer_", "lookupTransform") : cs[i][3] = exception

LookupSucceeded(cs) == LookupThrew(cs, "")

KeyframeState(s) ==
    <<s.last_keyframe_pose_, s.b_add_first_scan_to_key_, s.counter_>>

\* What holds of a scan whose lookup throws an extrapolation error: no call
\* to a collaborator, KeyframeState and odometry_pose_previous_ untouched.
C5_FailedLookupTouchesNothing ==
    [][(LidarStep /\ LookupThrew(calls', "ExtrapolationException"))
       => (/\ SelectSeq(calls', IsCollaboratorCall) = <<>>
           /\ KeyframeState(self') = KeyframeState(self)
           /\ self'.odometry_pose_previous_ = self.odometry_pose_previous_
           /\ self'.b_odometry_has_been_received_ = self.b_odometry_has_been_received_)]_vars

\* C5 as claimed: a scan whose lookup throws an extrapolation error makes
\* no call to a collaborator, leaves KeyframeState and
\* odometry_pose_previous_, and leaves the frontend able to process the
\* next scan.
C5_FailedLookupAbortsScanOnly ==
    [][(LidarStep /\ LookupThrew(calls', "ExtrapolationException"))
       => (/\ SelectSeq(calls', IsCollaboratorCall) = <<>>
           /\ KeyframeState(self') = KeyframeState(self)
           /\ self'.odometry_pose_previous_ = self.odometry_pose_previous_
           /\ ~terminated')]_vars

(***************************************************************************)
(* C6.  The first scan whose lookup succeeds only records the pose; every  *)
(* later one forwards inverse(previous) * current to the estimator before  *)
(* UpdateEstimate().                                                       *)
(***************************************************************************)
\* C6: in the odometry integration mode, the first scan whose lookup
\* succeeds records the looked-up pose and returns without a call to a
\* collaborator; a later scan whose lookup succeeds calls SetOdometryDelta
\* once, with inverse(odometry_pose_previous_) * pose, before UpdateEstimate.
C6_OdometryDeltaForwarded ==
    [][(LidarStep /\ self.b_use_odometry_integration_ /\ LookupSucceeded(calls'))
       => \A pose \in {ValueOf(calls', "odometry_buffer_", "lookupTransform")} :
            IF ~self.b_odometry_has_been_received_
            THEN /\ path' = "first_odometry"
                 /\ SelectSeq(calls', IsCollaboratorCall) = <<>>
                 /\ self'.odometry_pose_previous_ = pose
                 /\ self'.b_odometry_has_been_received_
            ELSE /\ path' \in {"bootstrap", "steady"}
                 /\ Cardinality(CallsOf(calls', "odometry_", "SetOdometryDelta")) = 1
                 /\ \E i \in CallsOf(calls', "odometry_", "SetOdometryDelta") :
                       /\ calls'[i][4] =
                            PoseUpdate(PoseInverse(self.odometry_pose_previous_), pose)
                       /\ \A j \in CallsOf(calls', "odometry_", "UpdateEstimate") : i < j
                 /\ ReachedEstimator(calls')]_vars

\* C6 witness: a delta other than the identity was forwarded and the
\* estimator then ran.
C6_Witness ==
    /\ ReachedEstimator(calls)
    /\ \E i \in CallsOf(calls, "odometry_", "SetOdometryDelta") :
          /\ calls[i][4] # Identity
          /\ calls[i][4][1] # 0 \/ calls[i][4][2] # 0

(***************************************************************************)
(* C7.  The sequence guard.                                                *)
(***************************************************************************)
ScanDroppedWarned(cs) == CallsOf(cs, "ROS_WARN", "Lidar scan dropped") # {}

\* C7: a gap is reported, once, exactly for a scan that is not the first
\* and whose number is not the previous number plus one; the previous
\* number becomes the scan's number on every scan, skipped or not; a gap
\* changes nothing to how far the callback gets.
C7_SequenceGuard ==
    [][LidarStep
       => (/\ ScanDroppedWarned(calls')
                <=> (self.b_pcld_received_ /\ msg'.seq # self.pcld_seq_prev_ + 1)
           /\ Cardinality(CallsOf(calls', "ROS_WARN", "Lidar scan dropped")) <= 1
           /\ self'.b_pcld_received_
           /\ self'.pcld_seq_prev_ = msg'.seq
           /\ ~self.b_use_odometry_integration_ => path' \in {"bootstrap", "steady"}
           /\ self.b_use_odometry_integration_ =>
                /\ path' = "exception" <=> ~LookupSucceeded(calls')
                /\ path' = "first_odometry"
                     <=> (LookupSucceeded(calls') /\ ~self.b_odometry_has_been_received_))]_vars

\* C7 witness: number n + 2 after number n: a gap is reported and the scan
\* is processed all the same.
C7_Witness ==
    /\ ScanDroppedWarned(calls)
    /\ path = "steady"
    /\ msg.seq = 2

(***************************************************************************)
(* C8.  The keyframe decision follows the updates of the same scan.        *)
(***************************************************************************)
UpdateSteps ==
    << <<"localization_", "MotionUpdate">>,
       <<"localization_", "TransformPointsToFixedFrame">>,
       <<"mapper_", "ApproxNearestNeighbors">>,
       <<"localization_", "TransformPointsToSensorFrame">>,
       <<"localization_", "MeasurementUpdate">>,
       <<"localization_", "GetIntegratedEstimate">> >>

IsUpdateStep(call) == \E k \in DOMAIN UpdateSteps : UpdateSteps[k] = <<call[1], call[2]>>

Method(call) == <<call[1], call[2]>>

\* C8: a steady cycle calls MotionUpdate, TransformPointsToFixedFrame,
\* ApproxNearestNeighbors, TransformPointsToSensorFrame, MeasurementUpdate
\* and GetIntegratedEstimate in this order, the estimate is read once, and
\* a threshold-based insertion comes after that reading and stores that
\* estimate; no other callback makes a threshold-based insertion.
C8_DecisionAfterUpdates ==
    /\ path = "steady" =>
         \A steps \in {SelectSeq(calls, IsUpdateStep)} :
            /\ Len(steps) >= 6
            /\ \A k \in 1..6 : Method(steps[k]) = UpdateSteps[k]
            /\ Cardinality(CallsOf(calls, "localization_", "GetIntegratedEstimate")) = 1
            /\ Cardinality(CallsOf(calls, "localization_", "MeasurementUpdate")) = 1
            /\ \A i \in CallsOf(calls, "localization_", "MotionUpdate") :
                  calls[i][3] = "Identity" =>
                     /\ \A j \in CallsOf(calls, "localization_", "GetIntegratedEstimate") : j < i
                     /\ \A j \in CallsOf(calls, "localization_", "MeasurementUpdate") : j < i
                     /\ self.last_keyframe_pose_ =
                          ValueOf(calls, "localization_", "GetIntegratedEstimate")
    /\ path # "steady" => ~KeyframeInserted(calls)

\* C8 witness: a steady cycle that inserted a keyframe.
C8_Witness ==
    /\ path = "steady"
    /\ KeyframeDone(calls, self)

(***************************************************************************)
(* C9.  Claimed: a diagnostics level other than OK suppresses the          *)
(* publications of the cycle.                                              *)
(***************************************************************************)
OdometryLevel(cs) == ValueOf(cs, "odometry_", "GetDiagnostics")[1]

LocalizationLevel(cs) == ValueOf(cs, "localization_", "GetDiagnostics")[1]

\* C9 as claimed: when the estimator or the localizer reports a level other
\* than OK, the callback makes no PublishAll, of the estimator or of the
\* localizer, and no PublishMap.
C9_NotOKSuppressesPublication ==
    (/\ path = "steady"
     /\ OdometryLevel(calls) # 0 \/ LocalizationLevel(calls) # 0)
    => (/\ CallsOf(calls, "odometry_", "PublishAll") = {}
        /\ CallsOf(calls, "localization_", "PublishAll") = {}
        /\ ~MapPublished(calls))

\* C9 as amended: a level other than OK from the estimator suppresses the
\* estimator's PublishAll, one from the localizer the localizer's
\* PublishAll, each for that cycle and nothing else: PublishMap depends on
\* the keyframe counter alone, and the callback runs on whatever the
\* levels, the keyframe decision included.
C9_LevelGatesOwnPublishAll ==
    /\ [](ReachedEstimator(calls) =>
            /\ path \in {"bootstrap", "steady"}
            /\ CallsOf(calls, "odometry_", "PublishAll") # {} <=> OdometryLevel(calls) = 0
            /\ path = "steady" =>
                 /\ CallsOf(calls, "localization_", "PublishAll") # {}
                      <=> LocalizationLevel(calls) = 0
                 /\ CallsOf(calls, "localization_", "GetIntegratedEstimate") # {})
    /\ [][(path' = "steady" /\ LidarStep)
          => \A delta \in {PoseDelta(self.last_keyframe_pose_,
                                     ValueOf(calls', "localization_", "GetIntegratedEstimate"))} :
             \A over \in {\/ TranslationNormSq(delta) >
                               translation_threshold_kf_ * translation_threshold_kf_
                          \/ RotationAngle(delta) > rotation_threshold_kf_} :
                /\ over <=> KeyframeDone(calls', self')
                /\ MapPublished(calls')
                     <=> (/\ over
                          /\ self.b_publish_map_
                          /\ self.counter_ + 1 = self.map_publishment_meters_)]_vars

\* C9 witness: the estimator at WARN and the localizer at ERROR, and the
\* cycle inserted a keyframe and published the map.
C9_Witness ==
    /\ path = "steady"
    /\ OdometryLevel(calls) = 1
    /\ LocalizationLevel(calls) = 2
    /\ KeyframeDone(calls, self)
    /\ MapPublished(calls)

(***************************************************************************)
(* C10.  The instrumentation does not alter the control flow.              *)
(***************************************************************************)
Persistent(s) ==
    <<s.b_add_first_scan_to_key_, s.last_keyframe_pose_, s.counter_,
      s.b_odometry_has_been_received_, s.odometry_pose_previous_, s.pcld_seq_prev_>>

\* C10: two frontends that differ in b_enable_computation_time_profiling_
\* and publish_diagnostics_ alone and are fed the same scans and answers
\* make the same calls to the filter, the estimator, the localizer and the
\* mapper in every callback, end it the same way and hold the same
\* persistent state after it.
C10_InstrumentationInert ==
    /\ Instrumentation(twin.self) # Instrumentation(self)
    /\ SelectSeq(calls, IsCollaboratorCall) = SelectSeq(twin.calls, IsCollaboratorCall)
    /\ Persistent(self) = Persistent(twin.self)
    /\ path = "none" \/ twin.path = path

\* C10 witness: a frontend with both instruments on and its twin with both
\* off have inserted a keyframe after a scan on which UpdateEstimate()
\* failed was bootstrapped.
C10_Witness ==
    /\ Instrumentation(self) = <<TRUE, TRUE>>
    /\ Instrumentation(twin.self) = <<FALSE, FALSE>>
    /\ path = "steady"
    /\ KeyframeDone(calls, self)
    /\ MapPublished(calls)
    /\ Len(calls) > Len(twin.calls)

(***************************************************************************)
(* C11.  Claimed: every scan yields one diagnostics record and the three   *)
(* durations, when enabled.                                                *)
(***************************************************************************)
Durations ==
    {"lidar_callback_duration_pub_", "scan_to_scan_duration_pub_",
     "scan_to_submap_duration_pub_"}

Published(cs, publisher) == Cardinality(CallsOf(cs, publisher, "publish"))

Enabled01(b) == IF b THEN 1 ELSE 0

\* C11 as claimed: a callback that returns, on the steady path, the
\* bootstrap path or at the first odometry cycle, has published the
\* diagnostics record once, as its last call, when the diagnostics are
\* enabled, and each of the three durations when the profiling is enabled.
C11_EveryScanReports ==
    path \in {"steady", "bootstrap", "first_odometry"} =>
       /\ self.publish_diagnostics_ =>
            /\ Published(calls, "diagnostics_pub_") = 1
            /\ calls[Len(calls)][1] = "diagnostics_pub_"
       /\ self.b_enable_computation_time_profiling_ =>
            \A d \in Durations : Published(calls, d) = 1

\* C11 as amended: a callback that runs the steady path to its end
\* publishes the diagnostics record once, as its last call and with the
\* levels of the estimator and the localizer, when the diagnostics are
\* enabled, and each of the three durations once when the profiling is
\* enabled; a callback that takes the bootstrap path publishes the
\* scan-to-scan duration alone, and no diagnostics record; a callback that
\* returns at the first odometry cycle, or that the lookup's exception
\* leaves, publishes none of them.
C11_SteadyScanReports ==
    /\ path = "steady" =>
         /\ Published(calls, "diagnostics_pub_") = Enabled01(self.publish_diagnostics_)
         /\ self.publish_diagnostics_ =>
              calls[Len(calls)] =
                 Call("diagnostics_pub_", "publish", "",
                      <<OdometryLevel(calls), LocalizationLevel(calls)>>)
         /\ \A d \in Durations :
               Published(calls, d) = Enabled01(self.b_enable_computation_time_profiling_)
    /\ path = "bootstrap" =>
         /\ Published(calls, "diagnostics_pub_") = 0
         /\ Published(calls, "scan_to_scan_duration_pub_")
               = Enabled01(self.b_enable_computation_time_profiling_)
         /\ Published(calls, "lidar_callback_duration_pub_") = 0
         /\ Published(calls, "scan_to_submap_duration_pub_") = 0
    /\ path \in {"first_odometry", "exception"} =>
         /\ Published(calls, "diagnostics_pub_") = 0
         /\ \A d \in Durations : Published(calls, d) = 0

\* C11 witness: with both instruments on, a steady callback that inserted
\* a keyframe ended on the diagnostics record, after three durations.
C11_Witness ==
    /\ Instrumentation(self) = <<TRUE, TRUE>>
    /\ path = "steady"
    /\ KeyframeInserted(calls)
    /\ calls[Len(calls)][1] = "diagnostics_pub_"
    /\ \A d \in Durations : Published(calls, d) = 1

(***************************************************************************)
(* C12.  The density classification.                                       *)
(***************************************************************************)
\* C12: after a callback b_is_open_space_ is true exactly when the point
\* count of its scan is strictly above number_of_points_open_space_, and
\* the flag passed to Filter, if Filter was called, is that classification.
C12_DensityOfSameScan ==
    path # "none" =>
       /\ self.b_is_open_space_ <=> msg.width > number_of_points_open_space_
       /\ \A i \in CallsOf(calls, "filter_", "Filter") :
             calls[i][4] = BoolVal(msg.width > number_of_points_open_space_)
       /\ path \in {"bootstrap", "steady"} =>
             Cardinality(CallsOf(calls, "filter_", "Filter")) = 1

\* C12 witness: a scan with exactly number_of_points_open_space_ points was
\* filtered as normal.
C12_Witness ==
    /\ msg.width = number_of_points_open_space_
    /\ path = "steady"
    /\ \E i \in CallsOf(calls, "filter_", "Filter") : calls[i][4] = BoolVal(FALSE)

(***************************************************************************)
(* C13.  No motion of the external odometry gives the identity delta.      *)
(***************************************************************************)
\* The poses on which GetOdometryDelta is evaluated.
Poses ==
    {<<x, y, r>> : x \in -MaxCoord..MaxCoord, y \in -MaxCoord..MaxCoord, r \in 0..3}

\* C13: GetOdometryDelta(P) with odometry_pose_previous_ = P is the
\* identity for every pose P, and a scan whose looked-up pose is the pose of
\* the preceding successful lookup forwards the identity to the estimator.
C13_NoMotionIdentityDelta ==
    /\ [](\A P \in Poses :
            GetOdometryDelta([self EXCEPT !.odometry_pose_previous_ = P], P) = Identity)
    /\ [][(/\ LidarStep
           /\ self.b_odometry_has_been_received_
           /\ LookupSucceeded(calls')
           /\ ValueOf(calls', "odometry_buffer_", "lookupTransform")
                = self.odometry_pose_previous_)
          => (/\ CallsOf(calls', "odometry_", "SetOdometryDelta") # {}
              /\ ValueOf(calls', "odometry_", "SetOdometryDelta") = Identity)]_vars

\* C13 witness: two scans in a row looked up the same pose, not the
\* identity, and the identity was forwarded.
C13_Witness ==
    /\ self.odometry_pose_previous_ # Identity
    /\ LookupSucceeded(calls)
    /\ ValueOf(calls, "odometry_buffer_", "lookupTransform") = self.odometry_pose_previous_
    /\ \E i \in CallsOf(calls, "odometry_", "SetOdometryDelta") : calls[i][4] = Identity

(***************************************************************************)
(* C14.  A steady cycle below both thresholds changes nothing of the       *)
(* keyframe state.                                                         *)
(***************************************************************************)
\* C14: a steady cycle in which neither threshold is exceeded calls neither
\* InsertPoints nor PublishMap and leaves last_keyframe_pose_, counter_ and
\* b_add_first_scan_to_key_ as they were.
C14_BelowThresholdsFrame ==
    [][(/\ LidarStep
        /\ path' = "steady"
        /\ ~ExceedsThreshold(PoseDelta(self.last_keyframe_pose_,
                                       ValueOf(calls', "localization_",
                                               "GetIntegratedEstimate"))))
       => (/\ CallsOf(calls', "mapper_", "InsertPoints") = {}
           /\ CallsOf(calls', "mapper_", "PublishMap") = {}
           /\ KeyframeState(self') = KeyframeState(self))]_vars

\* C14 witness: a steady cycle that inserted nothing, with a counter under
\* way and an estimate other than the last keyframe pose.
C14_Witness ==
    /\ path = "steady"
    /\ CallsOf(calls, "mapper_", "InsertPoints") = {}
    /\ self.counter_ > 0
    /\ ValueOf(calls, "localization_", "GetIntegratedEstimate") # self.last_keyframe_pose_

(***************************************************************************)
(* C15.  While UpdateEstimate() returns true, one scan is bootstrapped.    *)
(***************************************************************************)
\* C15: on the runs on which UpdateEstimate() always returns true, with the
\* ground-truth cloud mode off, the first scan that reaches the estimator
\* takes the bootstrap path and every later one that reaches it the steady
\* path.
C15_OneBootstrapWhileConverged ==
    [][(LidarStep /\ ReachedEstimator(calls'))
       => IF b_reached
          THEN /\ path' = "steady"
               /\ CallsOf(calls', "localization_", "PublishPoseNoUpdate") = {}
          ELSE /\ path' = "bootstrap"
               /\ BootstrapDone(calls', self')]_vars

\* C15 witness: in the odometry integration mode a scan took the steady
\* path after the bootstrap and inserted a keyframe.
C15_Witness ==
    /\ self.b_use_odometry_integration_
    /\ b_reached
    /\ path = "steady"
    /\ n_keyframes > 0

(***************************************************************************)
(* C16.  The first-scan flag is consumed in the callback that sets it.     *)
(***************************************************************************)
\* C16: with the ground-truth cloud mode off, b_add_first_scan_to_key_ is
\* false after every callback that reached the estimator, and a scan that
\* reaches the estimator takes the bootstrap path exactly when no scan
\* reached it before or UpdateEstimate() returned false on that scan.
C16_FlagConsumed ==
    /\ []((~GroundTruth /\ ReachedEstimator(calls)) => ~self.b_add_first_scan_to_key_)
    /\ []((~GroundTruth /\ b_reached) => ~self.b_add_first_scan_to_key_)
    /\ [][(~GroundTruth /\ LidarStep /\ ReachedEstimator(calls'))
          => (path' = "bootstrap" <=> (~b_reached \/ UpdateEstimateFailed(calls')))]_vars

\* C16 witness: in the odometry integration mode a scan on which
\* UpdateEstimate() failed was bootstrapped and left the flag false.
C16_Witness ==
    /\ ~GroundTruth
    /\ self.b_use_odometry_integration_
    /\ UpdateEstimateFailed(calls)
    /\ path = "bootstrap"
    /\ ~self.b_add_first_scan_to_key_

(***************************************************************************)
(* C17.  At most one insertion into the map per scan.                      *)
(***************************************************************************)
InsertedClouds(cs) == {cs[i][3] : i \in CallsOf(cs, "mapper_", "InsertPoints")}

\* C17: a callback calls InsertPoints at most once: the bootstrap
\* insertion and the threshold-based insertion never come together, and a
\* callback that returns at the first odometry cycle makes none.
C17_AtMostOneInsertion ==
    /\ Cardinality(CallsOf(calls, "mapper_", "InsertPoints")) <= 1
    /\ Cardinality(InsertedClouds(calls)) <= 1
    /\ path = "bootstrap" =>
         /\ InsertedClouds(calls) = {"msg_transformed_"}
         /\ ~KeyframeInserted(calls)
    /\ path = "steady" => InsertedClouds(calls) \subseteq {"msg_fixed_"}
    /\ path \in {"first_odometry", "exception", "none"} => InsertedClouds(calls) = {}

\* C17 witness: in the odometry integration mode a steady callback made
\* its one insertion, of msg_fixed_.
C17_Witness ==
    /\ self.b_use_odometry_integration_
    /\ path = "steady"
    /\ InsertedClouds(calls) = {"msg_fixed_"}
    /\ Cardinality(CallsOf(calls, "mapper_", "InsertPoints")) = 1

(***************************************************************************)
(* C18.  The range and the frame of the publication counter.               *)
(***************************************************************************)
\* C18: between callbacks 0 <= counter_ < map_publishment_meters_; counter_
\* changes only in a threshold-based insertion with b_publish_map_ set;
\* without b_publish_map_ it stays 0 and PublishMap() is never called.
C18_CounterRange ==
    /\ [](self.map_publishment_meters_ >= 1 =>
            (0 <= self.counter_ /\ self.counter_ < self.map_publishment_meters_))
    /\ [](~self.b_publish_map_ => (self.counter_ = 0 /\ ~MapPublished(calls)))
    /\ [][self'.counter_ # self.counter_
          => (/\ LidarStep
              /\ self.b_publish_map_
              /\ path' = "steady"
              /\ KeyframeDone(calls', self'))]_vars

\* C18 witness: a bootstrap insertion left a counter of 2 out of 3 as it
\* was.
C18_Witness ==
    /\ self.b_publish_map_
    /\ self.map_publishment_meters_ = 3
    /\ self.counter_ = 2
    /\ path = "bootstrap"

(***************************************************************************)
(* C19.  odometry_pose_previous_ follows every successful lookup.          *)
(***************************************************************************)
\* C19: in the odometry integration mode, after a callback whose lookup
\* succeeded odometry_pose_previous_ is the pose looked up, however the
\* callback ended, and the delta a callback forwards is taken from the pose
\* looked up by the preceding callback to its own.
C19_PreviousPoseFollowsLookup ==
    /\ [](LookupSucceeded(calls) =>
            /\ self.b_odometry_has_been_received_
            /\ self.odometry_pose_previous_ =
                 ValueOf(calls, "odometry_buffer_", "lookupTransform"))
    /\ [][(LidarStep /\ LookupSucceeded(calls) /\ LookupSucceeded(calls'))
          => (/\ CallsOf(calls', "odometry_", "SetOdometryDelta") # {}
              /\ ValueOf(calls', "odometry_", "SetOdometryDelta") =
                   PoseDelta(ValueOf(calls, "odometry_buffer_", "lookupTransform"),
                             ValueOf(calls', "odometry_buffer_", "lookupTransform")))]_vars

\* C19 witness: a scan that moved, on which UpdateEstimate() failed and
\* which was bootstrapped, left the pose it looked up.
C19_Witness ==
    /\ path = "bootstrap"
    /\ UpdateEstimateFailed(calls)
    /\ \E i \in CallsOf(calls, "odometry_", "SetOdometryDelta") : calls[i][4] # Identity
    /\ self.odometry_pose_previous_ =
         ValueOf(calls, "odometry_buffer_", "lookupTransform")

====
